---- MODULE Spec2Model ----
(***************************************************************************)
(* The Raft log of toydb (src/raft/log.rs): a Log caching term/vote,       *)
(* last index/term and commit index/term above an ordered key/value        *)
(* storage engine.  Every operation of Log is a pure operator on a record  *)
(* of the Log's fields that returns the outcome of the call (ok or panic), *)
(* the returned value and the Log afterwards; the actions apply them.      *)
(***************************************************************************)
EXTENDS Integers, Sequences, FiniteSets, TLC

\* ------------------------------------------------------------------ bounds
\* Highest entry index the model appends or splices.
MaxIndex == 2
\* Highest term the model sets or splices.
MaxTerm == 2
\* Longest entry vector handed to splice.
MaxSplice == 2

\* u64::MAX, the highest key of the scan of Log::new; the model's integers
\* end at 2^31 - 1, far above every index it reaches.
U64Max == 2147483647

\* Option<T>: None and Some(x).
None == <<>>
Some(x) == <<x>>

\* Node ids voted for (NodeID), commands (Option<Vec<u8>>), indexes and terms.
Nodes == {1, 2}
Votes == {None} \cup {Some(n) : n \in Nodes}
Commands == {None, Some(<<97>>)}
Indexes == 0..MaxIndex
Terms == 0..MaxTerm

\* ------------------------------------------------------- keys and values
\* enum Key { Entry(Index), TermVote, CommitIndex }: the variant number, then
\* the index; keys order by variant and then by index.
KeyEntry(index) == <<0, index>>
KeyTermVote == <<1>>
KeyCommitIndex == <<2>>

KeyLess(a, b) ==
    \/ a[1] < b[1]
    \/ a[1] = b[1] /\ Len(a) = 2 /\ Len(b) = 2 /\ a[2] < b[2]

\* struct Entry { index, term, command } and its encoded value (the fields in
\* declaration order).
Entry(index, t, command) == [index |-> index, term |-> t, command |-> command]
EntryEncode(e) == <<e.index, e.term, e.command>>
EntryDecode(v) == [index |-> v[1], term |-> v[2], command |-> v[3]]

\* ---------------------------------------------------------- the engine
\* storage::Engine: data is what get and scan see, flushed is what the last
\* flush made durable, ops are the write operations emitted since the
\* command began (the test engine's operation channel).
EmptyMap == [k \in {} |-> None]
EmptyEngine == [data |-> EmptyMap, flushed |-> EmptyMap, ops |-> <<>>]

EngineGet(e, key) == IF key \in DOMAIN e.data THEN Some(e.data[key]) ELSE None

EngineSet(e, key, value) ==
    [e EXCEPT !.data = [k \in DOMAIN e.data \cup {key} |->
                           IF k = key THEN value ELSE e.data[k]],
              !.ops = Append(@, <<"set", key, value>>)]

EngineDelete(e, key) ==
    [e EXCEPT !.data = [k \in DOMAIN e.data \ {key} |-> e.data[k]],
              !.ops = Append(@, <<"delete", key>>)]

EngineFlush(e) ==
    [e EXCEPT !.flushed = e.data, !.ops = Append(@, <<"flush">>)]

\* The keys of S in ascending order.
RECURSIVE SortKeys(_)
SortKeys(S) ==
    IF S = {} THEN <<>>
    ELSE LET m == CHOOSE k \in S : \A o \in S \ {k} : KeyLess(k, o)
         IN <<m>> \o SortKeys(S \ {m})

\* scan over the inclusive key range [from, to]: the values in key order.
EngineScan(e, from, to) ==
    LET keys == SortKeys({k \in DOMAIN e.data :
                             ~KeyLess(k, from) /\ ~KeyLess(to, k)})
    IN [i \in 1..Len(keys) |-> e.data[keys[i]]]

\* ------------------------------------------------------------- the Log
VARIABLES engine, term, vote, last_index, last_term, commit_index,
          commit_term, fsync, res

vars == <<engine, term, vote, last_index, last_term, commit_index,
          commit_term, fsync, res>>

\* The Log's fields as one record.
Self ==
    [engine |-> engine, term |-> term, vote |-> vote,
     last_index |-> last_index, last_term |-> last_term,
     commit_index |-> commit_index, commit_term |-> commit_term,
     fsync |-> fsync]

\* A call's outcome: Ok(value) or a panic with its message, and the Log as
\* the call leaves it.
Ok(self, ret) == [status |-> "ok", msg |-> "", ret |-> ret, self |-> self]
\* An early return, with the source's comment on it.
OkEarly(self, ret, why) == [Ok(self, ret) EXCEPT !.msg = why]
Panic(self, msg) == [status |-> "panic", msg |-> msg, ret |-> None, self |-> self]

\* The last element of the scan of Log::new, if any (preceded by a slip that
\* takes the first element).
FirstScanned(scanned) ==
    IF scanned = <<>> THEN None ELSE Some(EntryDecode(scanned[1]))
LastScanned(scanned) ==
    IF scanned = <<>> THEN None ELSE Some(EntryDecode(scanned[Len(scanned)]))

\* Log::new
LogNew(e) ==
    LET tv == EngineGet(e, KeyTermVote)
        scan == EngineScan(e, KeyEntry(0), KeyEntry(U64Max))
        ci == EngineGet(e, KeyCommitIndex)
        last == LastScanned(scan)
    IN [engine |-> e,
        term |-> IF tv = None THEN 0 ELSE tv[1][1],
        vote |-> IF tv = None THEN None ELSE tv[1][2],
        last_index |-> IF last = None THEN 0 ELSE last[1].index,
        last_term |-> IF last = None THEN 0 ELSE last[1].term,
        commit_index |-> IF ci = None THEN 0 ELSE ci[1][1],
        commit_term |-> IF ci = None THEN 0 ELSE ci[1][2],
        fsync |-> TRUE]

\* Log::enable_fsync
enable_fsync(self, b) == Ok([self EXCEPT !.fsync = b], None)

\* set_term_vote's assertion that a vote cast in this term is not changed
\* (preceded by the assertion left out).
VoteKeptDropped(self, t, v) == TRUE
VoteKept(self, t, v) == t > self.term \/ self.vote = None \/ v = self.vote

\* Log::set_term_vote (preceded by a slip that flushes only with fsync
\* enabled, as append and splice do)
SetTermVoteFlushIfFsync(self, t, v) ==
    IF ~(t > 0) THEN Panic(self, "can't set term 0")
    ELSE IF ~(t >= self.term) THEN Panic(self, "term regression")
    ELSE IF ~VoteKept(self, t, v)
    THEN Panic(self, "can't change vote")
    ELSE IF t = self.term /\ v = self.vote THEN Ok(self, None)
    ELSE LET e1 == EngineSet(self.engine, KeyTermVote, <<t, v>>)
             e2 == IF self.fsync THEN EngineFlush(e1) ELSE e1
         IN Ok([self EXCEPT !.engine = e2, !.term = t, !.vote = v], None)
set_term_vote(self, t, v) ==
    IF ~(t > 0) THEN Panic(self, "can't set term 0")
    ELSE IF ~(t >= self.term) THEN Panic(self, "term regression")
    ELSE IF ~VoteKept(self, t, v)
    THEN Panic(self, "can't change vote")
    ELSE IF t = self.term /\ v = self.vote THEN Ok(self, None)
    ELSE LET e1 == EngineSet(self.engine, KeyTermVote, <<t, v>>)
             e2 == EngineFlush(e1)
         IN Ok([self EXCEPT !.engine = e2, !.term = t, !.vote = v], None)

\* Log::get
get(self, index) ==
    LET v == EngineGet(self.engine, KeyEntry(index))
    IN IF v = None THEN None ELSE Some(EntryDecode(v[1]))

\* The fast paths of has on the cached last index/term (preceded by a slip
\* that answers from the last term for every index).
HasFastAnyIndex(self, index, t) ==
    IF index = 0 \/ index > self.last_index THEN Some(FALSE)
    ELSE IF t = self.last_term THEN Some(TRUE)
    ELSE None
HasFast(self, index, t) ==
    IF index = 0 \/ index > self.last_index THEN Some(FALSE)
    ELSE IF <<index, t>> = <<self.last_index, self.last_term>> THEN Some(TRUE)
    ELSE None

\* Log::has
has(self, index, t) ==
    LET fast == HasFast(self, index, t)
        found == get(self, index)
    IN IF fast # None THEN Ok(self, fast[1])
       ELSE Ok(self, IF found = None THEN FALSE ELSE found[1].term = t)

\* The entry append builds: the next index, the current term (preceded by a
\* slip that takes the last entry's term).
AppendEntryLastTerm(self, command) ==
    Entry(self.last_index + 1, self.last_term, command)
AppendEntry(self, command) == Entry(self.last_index + 1, self.term, command)

\* Log::append
append(self, command) ==
    IF ~(self.term > 0) THEN Panic(self, "can't append entry in term 0")
    ELSE LET entry == AppendEntry(self, command)
             e1 == EngineSet(self.engine, KeyEntry(entry.index), EntryEncode(entry))
             e2 == IF self.fsync THEN EngineFlush(e1) ELSE e1
         IN Ok([self EXCEPT !.engine = e2, !.last_index = entry.index,
                            !.last_term = entry.term],
               Some(entry.index))

\* The guards of commit's match on the entry found at the index: a commit
\* index regression and a commit index already reached (each preceded by the
\* guard left out).
CommitRegressesNever(self, entry) == FALSE
CommitRegresses(self, entry) == entry.index < self.commit_index

AlreadyCommittedNever(self, entry) == FALSE
AlreadyCommitted(self, entry) == entry.index = self.commit_index

\* The write of commit: the CommitIndex key, not flushed, then the cached
\* commit index/term (preceded by a slip that flushes it).
CommitWriteFlushed(self, index, t) ==
    LET e1 == EngineSet(self.engine, KeyCommitIndex, <<index, t>>)
    IN Ok([self EXCEPT !.engine = EngineFlush(e1), !.commit_index = index,
                       !.commit_term = t],
          Some(index))
CommitWrite(self, index, t) ==
    LET e1 == EngineSet(self.engine, KeyCommitIndex, <<index, t>>)
    IN Ok([self EXCEPT !.engine = e1, !.commit_index = index,
                       !.commit_term = t],
          Some(index))

\* Log::commit
commit(self, index) ==
    LET found == get(self, index)
    IN IF found = None THEN Panic(self, "commit index does not exist")
       ELSE IF CommitRegresses(self, found[1])
       THEN Panic(self, "commit index regression")
       ELSE IF AlreadyCommitted(self, found[1]) THEN Ok(self, Some(index))
       ELSE CommitWrite(self, index, found[1].term)

\* Log::scan over the inclusive index range [from, to]
scan(self, from, to) ==
    LET values == EngineScan(self.engine, KeyEntry(from), KeyEntry(to))
    IN [i \in 1..Len(values) |-> EntryDecode(values[i])]

\* Log::scan_apply (preceded by a slip that starts the scan at the applied
\* index itself)
ScanApplyFromApplied(self, applied_index) ==
    IF applied_index >= self.commit_index THEN <<>>
    ELSE scan(self, applied_index, self.commit_index)
scan_apply(self, applied_index) ==
    IF applied_index >= self.commit_index THEN <<>>
    ELSE scan(self, applied_index + 1, self.commit_index)

\* The conflict test of splice's loop: the stored and the input entry at
\* one index have different terms (preceded by a test that never stops and
\* by one that always stops).
TermsDifferNever(entry, input) == FALSE
TermsDifferAlways(entry, input) == TRUE
TermsDiffer(entry, input) == entry.term # input.term

\* splice's loop skipping the entries that are already in the log: what is
\* left of the input when the scan ends or the terms differ.
RECURSIVE SkipExisting(_, _)
SkipExisting(scanned, entries) ==
    IF scanned = <<>> THEN [status |-> "ok", msg |-> "", entries |-> entries]
    ELSE LET entry == Head(scanned)
         IN IF entries = <<>>
            THEN [status |-> "panic", msg |-> "index out of bounds",
                  entries |-> entries]
            ELSE IF ~(entry.index = entries[1].index)
            THEN [status |-> "panic", msg |-> "index mismatch",
                  entries |-> entries]
            ELSE IF TermsDiffer(entry, entries[1])
            THEN [status |-> "ok", msg |-> "", entries |-> entries]
            ELSE IF ~(entry.command = entries[1].command)
            THEN [status |-> "panic", msg |-> "command mismatch",
                  entries |-> entries]
            ELSE SkipExisting(Tail(scanned), Tail(entries))

\* for entry in entries { engine.set(Key::Entry(entry.index), entry) }
RECURSIVE SetEntries(_, _)
SetEntries(e, entries) ==
    IF entries = <<>> THEN e
    ELSE SetEntries(EngineSet(e, KeyEntry(Head(entries).index),
                              EntryEncode(Head(entries))),
                    Tail(entries))

\* for index in from..=to { engine.delete(Key::Entry(index)) }
RECURSIVE DeleteEntries(_, _, _)
DeleteEntries(e, from, to) ==
    IF from > to THEN e
    ELSE DeleteEntries(EngineDelete(e, KeyEntry(from)), from + 1, to)

\* entries.windows(2).all(|w| w[0].index + 1 == w[1].index)
\* (preceded by the test left out)
ContiguousDropped(entries) == TRUE
Contiguous(entries) ==
    \A i \in 1..Len(entries) - 1 : entries[i].index + 1 = entries[i + 1].index

\* entries.windows(2).all(|w| w[0].term <= w[1].term)
TermsAscend(entries) ==
    \A i \in 1..Len(entries) - 1 : entries[i].term <= entries[i + 1].term

\* splice's assertions on the input and the log it meets.
\* (each preceded by the same assertion left out, as a slip would leave it)
TermWithinCurrentDropped(self, last) == TRUE
TermWithinCurrent(self, last) == last.term <= self.term

BaseTermKeptDropped(base, first) == TRUE
BaseTermKept(base, first) == ~(first.term < base.term)

TouchesLogDropped(first) == TRUE
TouchesLog(first) == first.index = 1

AboveCommitDropped(self, first) == TRUE
AboveCommit(self, first) == first.index > self.commit_index

\* The scan of the existing entries that splice compares with its input
\* (preceded by a scan that runs on to the end of the log).
SpliceScanToEnd(self, first, last) == scan(self, first.index, self.last_index)
SpliceScan(self, first, last) == scan(self, first.index, last.index)

\* The first index of the old tail that splice removes (preceded by an
\* off-by-one start).
TailFromNext(last) == last.index + 2
TailFrom(last) == last.index + 1

\* The writes of splice: the remaining entries, the removal of the old tail
\* and the flush (preceded by a slip that leaves the flush out).
SpliceWriteUnflushed(self, entries, last) ==
    LET e1 == SetEntries(self.engine, entries)
        e2 == DeleteEntries(e1, TailFrom(last), self.last_index)
    IN Ok([self EXCEPT !.engine = e2, !.last_index = last.index,
                       !.last_term = last.term],
          Some(last.index))
SpliceWrite(self, entries, last) ==
    LET e1 == SetEntries(self.engine, entries)
        e2 == DeleteEntries(e1, TailFrom(last), self.last_index)
        e3 == IF self.fsync THEN EngineFlush(e2) ELSE e2
    IN Ok([self EXCEPT !.engine = e3, !.last_index = last.index,
                       !.last_term = last.term],
          Some(last.index))

\* Log::splice
splice(self, entries) ==
    IF entries = <<>>
    THEN OkEarly(self, Some(self.last_index), "empty input is noop")
    ELSE
    LET first == entries[1]
        last == entries[Len(entries)]
    IN
    IF ~(first.index > 0 /\ first.term > 0)
    THEN Panic(self, "spliced entry has index or term 0")
    ELSE IF ~Contiguous(entries)
    THEN Panic(self, "spliced entries are not contiguous")
    ELSE IF ~TermsAscend(entries)
    THEN Panic(self, "spliced entries have term regression")
    ELSE IF ~TermWithinCurrent(self, last)
    THEN Panic(self, "splice term beyond current")
    ELSE
    LET base == get(self, first.index - 1)
    IN
    IF base # None /\ ~BaseTermKept(base[1], first)
    THEN Panic(self, "splice term regression")
    ELSE IF base = None /\ ~TouchesLog(first)
    THEN Panic(self, "first index must touch existing log")
    ELSE
    LET skip == SkipExisting(SpliceScan(self, first, last), entries)
    IN
    IF skip.status = "panic" THEN Panic(self, skip.msg)
    ELSE IF skip.entries = <<>>
    THEN OkEarly(self, Some(self.last_index), "all entries already exist")
    ELSE IF ~AboveCommit(self, skip.entries[1])
    THEN Panic(self, "spliced entries below commit index")
    ELSE SpliceWrite(self, skip.entries, last)

\* ------------------------------------------------------------ actions
Init ==
    /\ engine = EmptyEngine
    /\ term = 0
    /\ vote = None
    /\ last_index = 0
    /\ last_term = 0
    /\ commit_index = 0
    /\ commit_term = 0
    /\ fsync = TRUE
    /\ res = [name |-> "new", status |-> "ok", msg |-> "", ret |-> None]

\* The state after a command: the Log as the call left it and the command's
\* outcome.
Done(name, r) ==
    /\ engine' = r.self.engine
    /\ term' = r.self.term
    /\ vote' = r.self.vote
    /\ last_index' = r.self.last_index
    /\ last_term' = r.self.last_term
    /\ commit_index' = r.self.commit_index
    /\ commit_term' = r.self.commit_term
    /\ fsync' = r.self.fsync
    /\ res' = [name |-> name, status |-> r.status, msg |-> r.msg, ret |-> r.ret]

\* The Log at the start of a command: no engine operation emitted yet.
Fresh(self) == [self EXCEPT !.engine.ops = <<>>]
Begin == [Self EXCEPT !.engine.ops = <<>>]

\* A panic aborts the process: only a restart follows it.
Alive == res.status # "panic"

SetTermVote(t, v) == Alive /\ Done("set_term_vote", set_term_vote(Begin, t, v))

AppendCmd(c) ==
    /\ Alive
    /\ last_index < MaxIndex
    /\ Done("append", append(Begin, c))

Commit(i) == Alive /\ Done("commit", commit(Begin, i))

EnableFsync(b) == Alive /\ Done("enable_fsync", enable_fsync(Begin, b))

Reload == Done("reload", Ok(LogNew(Begin.engine), None))

\* The entry vectors handed to splice.  The well-formed ones: contiguous
\* indexes from 1..MaxIndex, terms from 1..MaxTerm that never decrease, any
\* commands, at most MaxSplice entries.
EntryValues == [index : 1..MaxIndex, term : 1..MaxTerm, command : Commands]

Continue(entries) ==
    LET l == entries[Len(entries)]
    IN {Append(entries, x) :
           x \in {y \in EntryValues : y.index = l.index + 1 /\ y.term >= l.term}}

RECURSIVE VectorsOfLen(_)
VectorsOfLen(n) ==
    IF n = 0 THEN {<<>>}
    ELSE IF n = 1 THEN {<<x>> : x \in EntryValues}
    ELSE UNION {Continue(v) : v \in VectorsOfLen(n - 1)}

WellFormed == UNION {VectorsOfLen(n) : n \in 0..MaxSplice}

\* The malformed ones: a first entry with index 0 or term 0, and a
\* well-formed entry followed by one that repeats its index, skips an index
\* or lowers the term.
Malformed ==
    {<<Entry(0, t, None)>> : t \in Terms}
    \cup {<<Entry(i, 0, None)>> : i \in 1..MaxIndex}
    \cup UNION {{<<x, [x EXCEPT !.index = x.index]>>,
                 <<x, [x EXCEPT !.index = x.index + 2]>>,
                 <<x, [x EXCEPT !.index = x.index + 1, !.term = x.term - 1]>>} :
                x \in {y \in EntryValues : y.command = None}}

SpliceInputs == WellFormed \cup Malformed

Splice(entries) == Alive /\ Done("splice", splice(Begin, entries))

Next ==
    \/ \E entries \in SpliceInputs : Splice(entries)
    \/ \E t \in Terms, v \in Votes : SetTermVote(t, v)
    \/ \E c \in Commands : AppendCmd(c)
    \/ \E i \in Indexes : Commit(i)
    \/ Reload

Spec == Init /\ [][Next]_vars

\* The same with fsync switched on and off between the commands.
NextFsync == Next \/ \E b \in BOOLEAN : EnableFsync(b)

SpecFsync == Init /\ [][NextFsync]_vars

\* The commands with no vote cast: splice, append and commit never read the
\* vote, and the claims about them are checked on the log without it.
NextNoVote ==
    \/ \E entries \in SpliceInputs : Splice(entries)
    \/ \E t \in Terms : SetTermVote(t, None)
    \/ \E c \in Commands : AppendCmd(c)
    \/ \E i \in Indexes : Commit(i)
    \/ Reload

SpecNoVote == Init /\ [][NextNoVote]_vars

\* The commands of a run in which no command aborts: each is taken only when
\* it succeeds.
NextOk ==
    \/ \E entries \in SpliceInputs : Splice(entries) /\ res'.status = "ok"
    \/ \E t \in Terms : SetTermVote(t, None) /\ res'.status = "ok"
    \/ \E c \in Commands : AppendCmd(c) /\ res'.status = "ok"
    \/ \E i \in Indexes : Commit(i) /\ res'.status = "ok"
    \/ Reload

SpecOk == Init /\ [][NextOk]_vars

\* The same without commit and reload: the commands that write entries, and
\* the term they need.
NextEntries ==
    \/ \E entries \in SpliceInputs : Splice(entries) /\ res'.status = "ok"
    \/ \E t \in Terms : SetTermVote(t, None) /\ res'.status = "ok"
    \/ \E c \in Commands : AppendCmd(c) /\ res'.status = "ok"

SpecEntries == Init /\ [][NextEntries]_vars

\* The Logs that commands reach, without the outcome of the last command:
\* a command that succeeds leaves its Log, with no engine operation kept.
Reach(r) ==
    /\ r.status = "ok"
    /\ engine' = Fresh(r.self).engine
    /\ term' = r.self.term
    /\ vote' = r.self.vote
    /\ last_index' = r.self.last_index
    /\ last_term' = r.self.last_term
    /\ commit_index' = r.self.commit_index
    /\ commit_term' = r.self.commit_term
    /\ fsync' = r.self.fsync
    /\ UNCHANGED res

NextLogs ==
    \/ \E entries \in SpliceInputs : Reach(splice(Begin, entries))
    \/ \E t \in Terms, v \in Votes : Reach(set_term_vote(Begin, t, v))
    \/ \E c \in Commands : last_index < MaxIndex /\ Reach(append(Begin, c))
    \/ \E i \in Indexes : Reach(commit(Begin, i))

SpecLogs == Init /\ [][NextLogs]_vars

\* ------------------------------------------------------------- claims
\* The indexes of the entries the engine stores, and whether a kind of
\* engine operation was emitted by the last command.
StoredIndexes(self) == {k[2] : k \in {x \in DOMAIN self.engine.data : x[1] = 0}}
Emitted(e, kind) == \E n \in 1..Len(e.ops) : e.ops[n][1] = kind
Succeeded(name) == res.name = name /\ res.status = "ok"

\* The Log at the start of a command, with fsync switched on or off.
WithFsync(b) == [Begin EXCEPT !.fsync = b]

\* Every entry of the input is stored as it is.
AllStored(self, entries) ==
    \A n \in 1..Len(entries) : get(self, entries[n].index) = Some(entries[n])

\* A splice that is a no-op: it succeeds, returns the unchanged last index,
\* emits no engine operation and leaves the Log and the engine as they are.
SpliceNoop(self, entries) ==
    LET r == splice(self, entries)
    IN /\ r.status = "ok"
       /\ r.ret = Some(self.last_index)
       /\ r.self = self
       /\ r.self.engine.ops = <<>>

\* C1: no step changes or deletes a stored entry whose index is at or below
\* the commit index in force when the step starts.
C1_CommittedEntriesKept ==
    [][\A i \in 1..commit_index :
          get(Self, i) # None => get(Self', i) = get(Self, i)]_vars

\* A splice that wrote entries above a commit index that is set.
C1_Witness ==
    /\ Succeeded("splice")
    /\ Emitted(engine, "set")
    /\ commit_index >= 1
    /\ get(Self, commit_index) # None

\* C2: after every successful operation the stored entries' indexes are
\* exactly 1..last_index.
C2_IndexesContiguous ==
    res.status = "ok" => StoredIndexes(Self) = 1..last_index

\* A splice that removed an old tail and left a non-empty log.
C2_Witness ==
    /\ Succeeded("splice")
    /\ Emitted(engine, "delete")
    /\ last_index >= 1

\* C3: after every successful operation the terms of entries at consecutive
\* indexes never decrease.
C3_TermsNeverDecrease ==
    res.status = "ok" =>
        \A i \in StoredIndexes(Self) :
            i + 1 \in StoredIndexes(Self) =>
                get(Self, i)[1].term <= get(Self, i + 1)[1].term

\* A splice that replaced a conflicting entry, leaving a term step in the log.
C3_Witness ==
    /\ Succeeded("splice")
    /\ Emitted(engine, "set")
    /\ last_index = 2
    /\ get(Self, 1)[1].term < get(Self, 2)[1].term

\* C4: after every successful operation every stored entry's term is at or
\* below the current term.
C4_TermsWithinCurrent ==
    res.status = "ok" =>
        \A i \in StoredIndexes(Self) : get(Self, i)[1].term <= term

\* A splice that wrote an entry of the current term above an older one.
C4_Witness ==
    /\ Succeeded("splice")
    /\ Emitted(engine, "set")
    /\ last_term = term
    /\ \E i \in StoredIndexes(Self) : get(Self, i)[1].term < term

\* C5: set_term_vote aborts, writing nothing, on term 0, on a lower term
\* and on the current term with a vote other than the one already cast;
\* every other call succeeds, never lowers the term and, within a term,
\* changes the vote only from none to a node.
C5_TermVoteMonotone ==
    Alive =>
        \A t \in Terms, v \in Votes :
            LET r == set_term_vote(Begin, t, v)
            IN IF t = 0 \/ t < term \/ (t = term /\ vote # None /\ v # vote)
               THEN r.status = "panic" /\ r.self = Begin
               ELSE /\ r.status = "ok"
                    /\ <<r.self.term, r.self.vote>> = <<t, v>>
                    /\ r.self.term >= term
                    /\ (r.self.term = term /\ r.self.vote # vote)
                           => (vote = None /\ r.self.vote # None)

\* A set_term_vote that stored a vote in the highest term and flushed it.
C5_Witness ==
    /\ Succeeded("set_term_vote")
    /\ term = MaxTerm
    /\ vote # None
    /\ Emitted(engine, "flush")

\* C6: after every successful operation, Log::new on the engine's contents
\* recovers the cached last index/term, commit index/term, term and vote,
\* and get(i) gives the same entry for every index.
C6_ReopenRecovers ==
    res.status = "ok" =>
        LET n == LogNew(engine)
        IN /\ <<n.last_index, n.last_term, n.commit_index, n.commit_term,
                n.term, n.vote>>
              = <<last_index, last_term, commit_index, commit_term, term, vote>>
           /\ \A i \in 0..MaxIndex + 1 : get(n, i) = get(Self, i)

\* A log with two entries, a commit index and a vote, left by a commit.
C6_Witness ==
    /\ Succeeded("commit")
    /\ last_index = 2
    /\ commit_index >= 1
    /\ vote # None
    /\ get(Self, 1)[1].term < last_term

\* C7: with a term above 0, append(c) returns last_index + 1, stores there
\* the entry (last_index + 1, current term, c), sets last index/term to it
\* and leaves every other entry and cached field alone; with term 0 it aborts.
C7_AppendPost ==
    Alive =>
        \A c \in Commands, b \in BOOLEAN :
            LET s == WithFsync(b)
                r == append(s, c)
                index == last_index + 1
            IN IF term > 0
               THEN /\ r.status = "ok"
                    /\ r.ret = Some(index)
                    /\ get(r.self, index) = Some(Entry(index, term, c))
                    /\ <<r.self.last_index, r.self.last_term>> = <<index, term>>
                    /\ \A i \in (0..MaxIndex + 2) \ {index} :
                           get(r.self, i) = get(s, i)
                    /\ [r.self EXCEPT !.engine = s.engine, !.last_index = last_index,
                                      !.last_term = last_term] = s
               ELSE r.status = "panic" /\ r.self = s

\* An append in a term above the last entry's term.
C7_Witness ==
    /\ Succeeded("append")
    /\ res.ret = Some(2)
    /\ last_index = 2
    /\ get(Self, 2)[1].term = term
    /\ get(Self, 1)[1].term < term

\* C8: a successful splice of a non-empty input that writes an entry leaves
\* every input entry stored, every entry below the input's first index as it
\* was, no entry above the input's last index, and last index/term and the
\* returned index at the input's last entry.
C8_SplicePost ==
    Alive =>
        \A entries \in SpliceInputs \ {<<>>} :
            LET r == splice(Begin, entries)
                first == entries[1]
                last == entries[Len(entries)]
            IN (r.status = "ok" /\ Emitted(r.self.engine, "set"))
               => /\ \A n \in 1..Len(entries) :
                         get(r.self, entries[n].index) = Some(entries[n])
                  /\ \A i \in 0..first.index - 1 : get(r.self, i) = get(Self, i)
                  /\ \A i \in last.index + 1..MaxIndex + 1 : get(r.self, i) = None
                  /\ <<r.self.last_index, r.self.last_term>> = <<last.index, last.term>>
                  /\ r.ret = Some(last.index)

\* A splice that wrote and removed the old tail above its last entry.
C8_Witness ==
    /\ Succeeded("splice")
    /\ Emitted(engine, "set")
    /\ Emitted(engine, "delete")
    /\ res.ret = Some(last_index)

\* C9: a splice that changed the log, called again at once with the same
\* input, succeeds, returns the same index, leaves the Log and the engine as
\* they are and emits no engine operation.
C9_SpliceIdempotent ==
    Alive =>
        \A entries \in SpliceInputs :
            LET r == splice(Begin, entries)
                s == [r.self EXCEPT !.engine.ops = <<>>]
                again == splice(s, entries)
            IN (r.status = "ok" /\ r.self.engine.ops # <<>>)
               => /\ again.status = "ok"
                  /\ again.ret = r.ret
                  /\ again.self = s
                  /\ again.self.engine.ops = <<>>

\* A splice that wrote the whole log, which the same input now finds stored.
C9_Witness ==
    /\ Succeeded("splice")
    /\ Emitted(engine, "set")
    /\ last_index = MaxIndex
    /\ \E entries \in WellFormed :
           /\ Len(entries) = last_index
           /\ AllStored(Self, entries)
           /\ splice(Begin, entries).msg = "all entries already exist"

\* C10 as stated: a splice whose every input entry is stored as it is, and a
\* splice of the empty input, are no-ops.
C10_AllStoredNoop ==
    Alive =>
        \A entries \in SpliceInputs, b \in BOOLEAN :
            AllStored(Begin, entries) => SpliceNoop(WithFsync(b), entries)

\* C10 as amended: the same for inputs whose indexes are contiguous.
C10_ContiguousStoredNoop ==
    Alive =>
        \A entries \in SpliceInputs, b \in BOOLEAN :
            (Contiguous(entries) /\ AllStored(Begin, entries))
                => SpliceNoop(WithFsync(b), entries)

\* A splice that found all its entries stored, in a log of which a stored
\* run ends below the last index.
C10_Witness ==
    /\ Succeeded("splice")
    /\ res.msg = "all entries already exist"
    /\ engine.ops = <<>>
    /\ res.ret = Some(last_index)
    /\ \E entries \in WellFormed :
           /\ entries # <<>>
           /\ entries[Len(entries)].index < last_index
           /\ AllStored(Self, entries)
           /\ SpliceNoop(Begin, entries)

\* ---------------------------------------------------- a second instance
\* The Logs a command leaves when it succeeds on s: set_term_vote, append
\* and splice, the commands that write entries or the term they need.
Successors(s) ==
    {Fresh(r.self) :
        r \in {x \in {set_term_vote(s, t, None) : t \in Terms}
                     \cup {append(s, c) : c \in IF s.last_index < MaxIndex
                                                 THEN Commands ELSE {}}
                     \cup {splice(s, e) : e \in WellFormed} :
                  x.status = "ok"}}

\* The Logs reached from an empty engine by at most n successful commands.
RECURSIVE RunsUpTo(_)
RunsUpTo(n) ==
    IF n = 0 THEN {LogNew(EmptyEngine)}
    ELSE LET S == RunsUpTo(n - 1) IN S \cup UNION {Successors(s) : s \in S}

\* A second Log instance, driven on its own: a term and up to MaxIndex
\* entries.
OtherLogs == RunsUpTo(MaxIndex + 1)

\* The matching property of two Logs: where both store an entry with the
\* same index and term, they store the same entries up to that index.
Matching(a, b) ==
    \A i \in 1..MaxIndex :
        (/\ get(a, i) # None
         /\ get(b, i) # None
         /\ get(a, i)[1].term = get(b, i)[1].term)
            => \A j \in 1..i : get(a, j) = get(b, j)

\* The runs of consecutive entries of a second Log: the Log, the run and
\* the entry before the run, if any.
OtherRuns ==
    UNION {{[log |-> o, entries |-> scan(o, from, to), base |-> get(o, from - 1)] :
               from \in 1..o.last_index, to \in 1..o.last_index} :
           o \in OtherLogs}

\* The base of a run is in self as it is in the second Log: the run starts
\* the log, or self has the entry before it with the second Log's term.
BaseAgrees(self, run) ==
    \/ run.base = None
    \/ has(self, run.base[1].index, run.base[1].term).ret

\* C11 as stated: two Logs, each driven by commands that succeed, store the
\* same entries up to every index at which they store the same term.
C11_AnyTwoLogsMatch ==
    res.status = "ok" => \A o \in OtherLogs : Matching(Self, o)

\* C11 as amended: when two Logs match and one splices a run of the other's
\* entries whose base it has with the other's term, a splice that succeeds
\* leaves it with the other's entries up to the run's last index, and the
\* two Logs still match.
C11_SpliceKeepsMatching ==
    Alive =>
        \A run \in OtherRuns :
            (run.entries # <<>> /\ BaseAgrees(Self, run) /\ Matching(Self, run.log))
                => LET r == splice(Begin, run.entries)
                   IN r.status = "ok"
                      => /\ \A i \in 1..run.entries[Len(run.entries)].index :
                                get(r.self, i) = get(run.log, i)
                         /\ Matching(r.self, run.log)

\* A splice that replaced a conflicting tail and left the Log with the
\* entries of a second Log that holds a term step.
C11_Witness ==
    /\ Succeeded("splice")
    /\ Emitted(engine, "delete")
    /\ last_index >= 1
    /\ \E o \in OtherLogs :
           /\ o.last_index = MaxIndex
           /\ get(o, 1)[1].term < o.last_term
           /\ \A i \in 1..last_index : get(Self, i) = get(o, i)

\* ------------------------------------------------------------- crashes
\* The engine after a crash that discards every write since the last flush.
Crashed(e) == [e EXCEPT !.data = e.flushed]

\* Every set or delete of an Entry key among the operations a command
\* emitted is followed by a flush.
EntryWritesFlushed(ops) ==
    \A n \in 1..Len(ops) :
        (ops[n][1] \in {"set", "delete"} /\ ops[n][2][1] = 0)
            => \E m \in n + 1..Len(ops) : ops[m][1] = "flush"

\* C12: with fsync enabled, a successful append, splice or set_term_vote
\* has flushed after every Entry key it set or deleted, and Log::new on the
\* engine as a crash right after it leaves it recovers the same term, vote,
\* last index/term and the same entry at every index.
C12_DurableOnReturn ==
    (fsync /\ res.status = "ok"
           /\ res.name \in {"append", "splice", "set_term_vote"})
        => /\ EntryWritesFlushed(engine.ops)
           /\ LET n == LogNew(Crashed(engine))
              IN /\ <<n.term, n.vote, n.last_index, n.last_term>>
                    = <<term, vote, last_index, last_term>>
                 /\ \A i \in 0..MaxIndex + 1 : get(n, i) = get(Self, i)

\* A splice that replaced an entry above a commit index, which commit wrote
\* without a flush.
C12_Witness ==
    /\ Succeeded("splice")
    /\ fsync
    /\ Emitted(engine, "set")
    /\ Emitted(engine, "flush")
    /\ commit_index >= 1
    /\ vote # None

\* C13: a set_term_vote that succeeds with a (term, vote) other than the
\* cached one emits a set of the TermVote key and then a flush, with fsync
\* enabled or disabled, leaves the pair stored and durable and caches it;
\* one with the cached (term, vote) emits nothing and changes nothing.
C13_TermVoteAlwaysFlushed ==
    Alive =>
        \A t \in Terms, v \in Votes, b \in BOOLEAN :
            LET s == WithFsync(b)
                r == set_term_vote(s, t, v)
            IN r.status = "ok"
               => IF <<t, v>> = <<term, vote>>
                  THEN r.self = s /\ r.self.engine.ops = <<>>
                  ELSE /\ r.self.engine.ops
                              = <<<<"set", KeyTermVote, <<t, v>>>>, <<"flush">>>>
                       /\ EngineGet(r.self.engine, KeyTermVote) = Some(<<t, v>>)
                       /\ r.self.engine.flushed = r.self.engine.data
                       /\ <<r.self.term, r.self.vote>> = <<t, v>>

\* A Log with a vote stored and durable: set_term_vote with the same term
\* and vote neither writes nor flushes, and with another term it writes and
\* flushes, also with fsync disabled.
C13_Witness ==
    /\ vote # None
    /\ EngineGet(Crashed(engine), KeyTermVote) = Some(<<term, vote>>)
    /\ set_term_vote(WithFsync(FALSE), term, vote).self.engine.ops = <<>>
    /\ \E t \in Terms :
           set_term_vote(WithFsync(FALSE), t, None).self.engine.ops
               = <<<<"set", KeyTermVote, <<t, None>>>>, <<"flush">>>>

\* ------------------------------------------------------------- commit
\* C14: commit(index) aborts when no entry is stored at index and when index
\* is below the commit index, emitting no engine operation and leaving the
\* engine and every cached field as they are.
C14_CommitAborts ==
    Alive =>
        \A i \in 0..MaxIndex + 1 :
            (get(Begin, i) = None \/ i < commit_index)
                => LET r == commit(Begin, i)
                   IN r.status = "panic" /\ r.self = Begin

\* A commit below the commit index that aborted.
C14_Witness ==
    /\ res.name = "commit"
    /\ res.status = "panic"
    /\ res.msg = "commit index regression"
    /\ commit_index = 2
    /\ EngineGet(engine, KeyCommitIndex) = Some(<<2, commit_term>>)

\* C15 as stated: commit(index) with index = commit_index succeeds, returns
\* index and emits no engine operation, index 0 on a Log that never
\* committed included.
C15_CommitSameNoop ==
    Alive =>
        LET r == commit(Begin, commit_index)
        IN r.status = "ok" /\ r.ret = Some(commit_index) /\ r.self = Begin

\* C15 as amended: the same for a commit index above 0; commit(0) on a Log
\* that never committed aborts, as no entry is stored at index 0.
C15_CommitSameNoopAboveZero ==
    Alive =>
        LET r == commit(Begin, commit_index)
        IN IF commit_index > 0
           THEN r.status = "ok" /\ r.ret = Some(commit_index) /\ r.self = Begin
           ELSE r.status = "panic" /\ r.self = Begin

\* A commit of the commit index, which returned it and wrote nothing.
C15_Witness ==
    /\ Succeeded("commit")
    /\ engine.ops = <<>>
    /\ commit_index >= 1
    /\ res.ret = Some(commit_index)

\* C16: commit(index) with index above the commit index and an entry stored
\* at index returns index, caches index and the entry's term as commit
\* index/term, emits one set of the CommitIndex key and no flush, stores
\* (index, term) there and leaves every entry, the flushed image and the
\* other cached fields as they are.
C16_CommitAdvances ==
    Alive =>
        \A i \in 0..MaxIndex + 1, b \in BOOLEAN :
            (i > commit_index /\ get(Begin, i) # None)
                => LET s == WithFsync(b)
                       r == commit(s, i)
                       t == get(s, i)[1].term
                   IN /\ r.status = "ok"
                      /\ r.ret = Some(i)
                      /\ <<r.self.commit_index, r.self.commit_term>> = <<i, t>>
                      /\ r.self.engine.ops = <<<<"set", KeyCommitIndex, <<i, t>>>>>>
                      /\ EngineGet(r.self.engine, KeyCommitIndex) = Some(<<i, t>>)
                      /\ r.self.engine.flushed = s.engine.flushed
                      /\ \A j \in 0..MaxIndex + 1 : get(r.self, j) = get(s, j)
                      /\ EngineGet(r.self.engine, KeyTermVote)
                             = EngineGet(s.engine, KeyTermVote)
                      /\ [r.self EXCEPT !.engine = s.engine,
                                        !.commit_index = commit_index,
                                        !.commit_term = commit_term] = s

\* A commit that moved the commit index past an earlier one, to an entry of
\* a higher term, and left its write unflushed.
C16_Witness ==
    /\ Succeeded("commit")
    /\ engine.ops = <<<<"set", KeyCommitIndex, <<commit_index, commit_term>>>>>>
    /\ commit_index = 2
    /\ commit_term > get(Self, 1)[1].term
    /\ EngineGet(Crashed(engine), KeyCommitIndex) = Some(<<1, get(Self, 1)[1].term>>)

\* ---------------------------------------------------------------- has
\* C17: in every state reached by commands that succeed, has(index, term)
\* is true exactly when get(index) gives an entry with that term.
C17_HasIsLookup ==
    \A i \in 0..MaxIndex + 1, t \in 0..MaxTerm + 1 :
        has(Self, i, t).ret
            = (get(Self, i) # None /\ get(Self, i)[1].term = t)

\* A log whose first entry has a lower term than its last: has answers the
\* last entry from the cache and the first from the point lookup.
C17_Witness ==
    /\ res.status = "ok"
    /\ last_index = MaxIndex
    /\ get(Self, 1)[1].term < last_term
    /\ HasFast(Self, last_index, last_term) = Some(TRUE)
    /\ HasFast(Self, 1, last_term) = None
    /\ ~has(Self, 1, last_term).ret
    /\ has(Self, 1, get(Self, 1)[1].term).ret

\* ------------------------------------------------- splice preconditions
\* The input entry is stored with its term.
SameTerm(self, e) ==
    get(self, e.index) # None /\ get(self, e.index)[1].term = e.term

\* The input entry is stored with its term and another command.
OtherCommand(self, e) ==
    SameTerm(self, e) /\ get(self, e.index)[1].command # e.command

\* The first n input entries are stored with their terms.
Duplicates(self, entries, n) == \A m \in 1..n : SameTerm(self, entries[m])

\* The preconditions on the input, the current term and the base entry.
BadInput(self, entries) ==
    LET first == entries[1]
        last == entries[Len(entries)]
        base == get(self, first.index - 1)
    IN \/ first.index = 0
       \/ first.term = 0
       \/ \E n \in 1..Len(entries) - 1 : entries[n + 1].index # entries[n].index + 1
       \/ \E n \in 1..Len(entries) - 1 : entries[n + 1].term < entries[n].term
       \/ last.term > self.term
       \/ (base # None /\ first.term < base[1].term)
       \/ (base = None /\ first.index # 1)

\* The first input entry that is not stored with its term is at or below
\* the commit index.
BelowCommit(self, entries) ==
    \E n \in 1..Len(entries) :
        /\ Duplicates(self, entries, n - 1)
        /\ ~SameTerm(self, entries[n])
        /\ entries[n].index <= self.commit_index

\* A splice that aborts having emitted no engine operation and changed
\* nothing.
SpliceAborts(self, entries) ==
    LET r == splice(self, entries)
    IN r.status = "panic" /\ r.self = self

\* C18 as stated: a splice of a non-empty input that breaks a precondition,
\* a stored entry with an input entry's index and term and another command
\* among them, aborts with no engine operation and nothing changed.
C18_BadSpliceAborts ==
    Alive =>
        \A entries \in SpliceInputs \ {<<>>} :
            (\/ BadInput(Begin, entries)
             \/ \E n \in 1..Len(entries) : OtherCommand(Begin, entries[n])
             \/ BelowCommit(Begin, entries))
                => SpliceAborts(Begin, entries)

\* C18 as amended: the same, the command mismatch counting only at an input
\* entry before which every input entry is stored with its term.
C18_BadSpliceAbortsReached ==
    Alive =>
        \A entries \in SpliceInputs \ {<<>>} :
            (\/ BadInput(Begin, entries)
             \/ \E n \in 1..Len(entries) :
                    Duplicates(Begin, entries, n - 1) /\ OtherCommand(Begin, entries[n])
             \/ BelowCommit(Begin, entries))
                => SpliceAborts(Begin, entries)

\* A log with a commit index in which one input aborts on a command mismatch
\* and another on an entry at or below the commit index.
C18_Witness ==
    /\ Succeeded("commit")
    /\ commit_index >= 1
    /\ \E entries \in WellFormed \ {<<>>} :
           /\ ~BadInput(Begin, entries)
           /\ OtherCommand(Begin, entries[1])
           /\ SpliceAborts(Begin, entries)
           /\ splice(Begin, entries).msg = "command mismatch"
    /\ \E entries \in WellFormed \ {<<>>} :
           /\ ~BadInput(Begin, entries)
           /\ BelowCommit(Begin, entries)
           /\ SpliceAborts(Begin, entries)
           /\ splice(Begin, entries).msg = "spliced entries below commit index"

\* ----------------------------------------------------- storage errors
\* The engine calls of a command and the assignments to the cached fields,
\* in the order of the source: <<"get">>, <<"scan">> (one step of a scan),
\* <<"set", key, value>>, <<"delete", key>>, <<"flush">> and
\* <<"cache", fields>>.  A command that returns early or panics makes the
\* calls before that point only.
SetTermVoteCallsCacheFirst(self, t, v) ==
    IF set_term_vote(self, t, v).status = "panic" \/ <<t, v>> = <<self.term, self.vote>>
    THEN <<>>
    ELSE <<<<"set", KeyTermVote, <<t, v>>>>,
           <<"cache", [term |-> t, vote |-> v]>>,
           <<"flush">>>>
SetTermVoteCalls(self, t, v) ==
    IF set_term_vote(self, t, v).status = "panic" \/ <<t, v>> = <<self.term, self.vote>>
    THEN <<>>
    ELSE <<<<"set", KeyTermVote, <<t, v>>>>,
           <<"flush">>,
           <<"cache", [term |-> t, vote |-> v]>>>>

AppendCalls(self, command) ==
    IF ~(self.term > 0) THEN <<>>
    ELSE LET entry == AppendEntry(self, command)
         IN <<<<"set", KeyEntry(entry.index), EntryEncode(entry)>>>>
            \o (IF self.fsync THEN <<<<"flush">>>> ELSE <<>>)
            \o <<<<"cache", [last_index |-> entry.index, last_term |-> entry.term]>>>>

CommitCalls(self, index) ==
    LET found == get(self, index)
    IN <<<<"get">>>>
       \o (IF \/ found = None
               \/ CommitRegresses(self, found[1])
               \/ AlreadyCommitted(self, found[1])
            THEN <<>>
            ELSE <<<<"set", KeyCommitIndex, <<index, found[1].term>>>>,
                   <<"cache", [commit_index |-> index,
                               commit_term |-> found[1].term]>>>>)

\* The writes of splice, as calls.
SpliceWriteCalls(self, entries, last) ==
    [n \in 1..Len(entries) |->
        <<"set", KeyEntry(entries[n].index), EntryEncode(entries[n])>>]
    \o [n \in 1..(self.last_index - TailFrom(last) + 1) |->
           <<"delete", KeyEntry(TailFrom(last) + n - 1)>>]
    \o (IF self.fsync THEN <<<<"flush">>>> ELSE <<>>)
    \o <<<<"cache", [last_index |-> last.index, last_term |-> last.term]>>>>

SpliceCalls(self, entries) ==
    IF entries = <<>> THEN <<>>
    ELSE
    LET first == entries[1]
        last == entries[Len(entries)]
    IN
    IF ~(/\ first.index > 0 /\ first.term > 0
         /\ Contiguous(entries)
         /\ TermsAscend(entries)
         /\ TermWithinCurrent(self, last))
    THEN <<>>
    ELSE
    LET base == get(self, first.index - 1)
    IN
    IF \/ base # None /\ ~BaseTermKept(base[1], first)
       \/ base = None /\ ~TouchesLog(first)
    THEN <<<<"get">>>>
    ELSE
    LET scanned == SpliceScan(self, first, last)
        skip == SkipExisting(scanned, entries)
        skipped == Len(entries) - Len(skip.entries)
    IN <<<<"get">>>>
       \o [n \in 1..skipped + 1 |-> <<"scan">>]
       \o (IF \/ skip.status = "panic"
               \/ skip.entries = <<>>
               \/ ~AboveCommit(self, skip.entries[1])
            THEN <<>>
            ELSE SpliceWriteCalls(self, skip.entries, last))

\* One call applied to the Log: a write to the engine, or an assignment to
\* the cached fields; a read changes nothing.
ApplyCall(self, c) ==
    IF c[1] = "set" THEN [self EXCEPT !.engine = EngineSet(@, c[2], c[3])]
    ELSE IF c[1] = "delete" THEN [self EXCEPT !.engine = EngineDelete(@, c[2])]
    ELSE IF c[1] = "flush" THEN [self EXCEPT !.engine = EngineFlush(@)]
    ELSE IF c[1] = "cache"
    THEN [f \in DOMAIN self |-> IF f \in DOMAIN c[2] THEN c[2][f] ELSE self[f]]
    ELSE self

\* The calls in order, of which the engine calls succeed fuel times and then
\* one fails, which the ? operator returns as the command's error; a failed
\* call changes nothing.
RECURSIVE RunCalls(_, _, _)
RunCalls(self, calls, fuel) ==
    IF calls = <<>> THEN [status |-> "ok", self |-> self]
    ELSE IF Head(calls)[1] = "cache"
    THEN RunCalls(ApplyCall(self, Head(calls)), Tail(calls), fuel)
    ELSE IF fuel = 0 THEN [status |-> "err", self |-> self]
    ELSE RunCalls(ApplyCall(self, Head(calls)), Tail(calls), fuel - 1)

\* The engine calls among the calls, and the cached fields of a Log.
EngineCalls(calls) == {n \in 1..Len(calls) : calls[n][1] # "cache"}
Cached(self) ==
    <<self.term, self.vote, self.last_index, self.last_term,
      self.commit_index, self.commit_term>>

\* A command's calls, with every engine call succeeding, leave the Log as
\* the command does when it returns Ok; with any one of them failing, they
\* return the error and leave the cached fields as they were.
ErrorsKeepCache(self, calls, r) ==
    LET n == Cardinality(EngineCalls(calls))
    IN /\ r.status = "ok" => RunCalls(self, calls, n) = [status |-> "ok", self |-> r.self]
       /\ \A k \in 0..n - 1 :
              LET f == RunCalls(self, calls, k)
              IN f.status = "err" /\ Cached(f.self) = Cached(self)

\* C19: an engine call that fails inside set_term_vote, append, commit or
\* splice makes the command return the error with term, vote, last
\* index/term and commit index/term unchanged.
C19_ErrorsKeepCache ==
    Alive =>
        \A b \in BOOLEAN :
            LET s == WithFsync(b)
            IN /\ \A t \in Terms, v \in Votes :
                      ErrorsKeepCache(s, SetTermVoteCalls(s, t, v), set_term_vote(s, t, v))
               /\ \A c \in Commands :
                      ErrorsKeepCache(s, AppendCalls(s, c), append(s, c))
               /\ \A i \in 0..MaxIndex + 1 :
                      ErrorsKeepCache(s, CommitCalls(s, i), commit(s, i))
               /\ \A entries \in SpliceInputs :
                      ErrorsKeepCache(s, SpliceCalls(s, entries), splice(s, entries))

\* A log on which a splice sets an entry, deletes a tail and flushes: the
\* flush failing leaves the engine written and the cached fields as they
\* were.
C19_Witness ==
    /\ res.status = "ok"
    /\ last_index = MaxIndex
    /\ \E entries \in WellFormed :
           LET calls == SpliceCalls(Begin, entries)
               f == RunCalls(Begin, calls, Cardinality(EngineCalls(calls)) - 1)
           IN /\ \E n \in 1..Len(calls) : calls[n][1] = "delete"
              /\ calls[Len(calls) - 1] = <<"flush">>
              /\ f.status = "err"
              /\ f.self.engine.data # engine.data
              /\ Cached(f.self) = Cached(Self)

\* ------------------------------------------------------- monotonicity
\* C20 as stated: from one successful command to the next, none of term,
\* last index, last term, commit index and commit term decreases.
C20_CacheNeverDecreases ==
    [][/\ term' >= term
       /\ last_index' >= last_index
       /\ last_term' >= last_term
       /\ commit_index' >= commit_index
       /\ commit_term' >= commit_term]_vars

\* C20 as amended: term, commit index and commit term never decrease; last
\* index and last term decrease only in a splice that writes entries, which
\* leaves the last index at or above the commit index.
C20_TermAndCommitNeverDecrease ==
    [][/\ term' >= term
       /\ commit_index' >= commit_index
       /\ commit_term' >= commit_term
       /\ (last_index' < last_index \/ last_term' < last_term)
              => /\ res'.name = "splice"
                 /\ Emitted(engine', "set")
                 /\ last_index' >= commit_index']_vars

\* A splice that replaced the first of two entries by one of a higher term
\* and removed the second: the last index went down.
C20_Witness ==
    /\ Succeeded("splice")
    /\ Emitted(engine, "set")
    /\ Emitted(engine, "delete")
    /\ last_index = 1
    /\ last_term = MaxTerm

\* ---------------------------------------------------------- scan_apply
\* C21: scan_apply(applied_index) yields the stored entries with
\* applied_index < index <= commit_index, each once and in ascending index
\* order, and nothing when applied_index >= commit_index.
C21_ScanApplyRange ==
    \A a \in 0..MaxIndex + 1 :
        LET r == scan_apply(Self, a)
            wanted == {i \in StoredIndexes(Self) : a < i /\ i <= commit_index}
        IN /\ Len(r) = Cardinality(wanted)
           /\ \A n \in 1..Len(r) :
                  r[n].index \in wanted /\ get(Self, r[n].index) = Some(r[n])
           /\ \A n \in 1..Len(r) - 1 : r[n].index < r[n + 1].index
           /\ a >= commit_index => r = <<>>

\* A commit of the first of two entries: scan_apply(0) yields that entry
\* alone, and nothing from the commit index or from above the last index.
C21_Witness ==
    /\ Succeeded("commit")
    /\ commit_index = 1
    /\ last_index = 2
    /\ scan_apply(Self, 0) = <<get(Self, 1)[1]>>
    /\ scan_apply(Self, 1) = <<>>
    /\ scan_apply(Self, last_index + 1) = <<>>

\* ------------------------------------------------------ commit index
\* C22: in every state reached by commands that succeed, the commit index
\* is at or below the last index, and it is 0 with commit term 0 or an
\* entry is stored at it whose term is the commit term.
C22_CommitWithinLog ==
    /\ commit_index <= last_index
    /\ \/ commit_index = 0 /\ commit_term = 0
       \/ /\ get(Self, commit_index) # None
          /\ get(Self, commit_index)[1].term = commit_term

\* A splice that wrote an entry of a higher term right above the commit
\* index.
C22_Witness ==
    /\ Succeeded("splice")
    /\ Emitted(engine, "set")
    /\ commit_index = 1
    /\ last_index = 2
    /\ last_term > commit_term

\* ------------------------------------------- the log after a storage error
\* Log::new on the engine's contents recovers the cached term, vote and
\* last index/term.
CacheRecovered(self) ==
    LET n == LogNew(self.engine)
    IN <<n.term, n.vote, n.last_index, n.last_term>>
       = <<self.term, self.vote, self.last_index, self.last_term>>

\* The stored entries have the indexes 1..n for some n, and terms that
\* never decrease.
EntriesValid(self) ==
    /\ \E n \in 0..MaxIndex + 1 : StoredIndexes(self) = 1..n
    /\ \A i \in StoredIndexes(self) :
           i + 1 \in StoredIndexes(self) =>
               get(self, i)[1].term <= get(self, i + 1)[1].term

\* Whichever engine call of the command fails, the Log it leaves has the
\* cache that Log::new recovers and valid entries.
ErrorsKeepLogValid(self, calls) ==
    \A k \in 0..Cardinality(EngineCalls(calls)) - 1 :
        LET f == RunCalls(self, calls, k)
        IN f.status = "err" => CacheRecovered(f.self) /\ EntriesValid(f.self)

\* C23: after set_term_vote, append or splice returns a storage error
\* partway through its engine calls, the cached term, vote and last
\* index/term are what Log::new recovers from the engine, and the stored
\* entries have contiguous indexes and terms that never decrease.
C23_ErrorsKeepLogValid ==
    Alive =>
        /\ \A t \in Terms, v \in Votes :
               ErrorsKeepLogValid(Begin, SetTermVoteCalls(Begin, t, v))
        /\ \A c \in Commands :
               ErrorsKeepLogValid(Begin, AppendCalls(Begin, c))
        /\ \A entries \in SpliceInputs :
               ErrorsKeepLogValid(Begin, SpliceCalls(Begin, entries))

\* ------------------------------------------------ crashes between commands
\* The operations emitted since the last flush.
RECURSIVE SinceFlush(_)
SinceFlush(ops) ==
    IF \E n \in 1..Len(ops) : ops[n][1] = "flush"
    THEN SinceFlush(Tail(ops))
    ELSE ops

\* The operations of ops at the positions in S, from position n on, in order.
RECURSIVE Kept(_, _, _)
Kept(ops, S, n) ==
    IF n > Len(ops) THEN <<>>
    ELSE (IF n \in S THEN <<ops[n]>> ELSE <<>>) \o Kept(ops, S, n + 1)

\* The writes applied in order to an engine.
RECURSIVE Replay(_, _)
Replay(e, writes) ==
    IF writes = <<>> THEN e
    ELSE LET w == Head(writes)
         IN Replay(IF w[1] = "set" THEN EngineSet(e, w[2], w[3])
                   ELSE EngineDelete(e, w[2]),
                   Tail(writes))

\* The engines a crash can leave: what the last flush made durable, and of
\* the writes since then any subset, the others lost.
CrashImages(e) ==
    LET writes == SinceFlush(e.ops)
    IN {LET d == Replay(Crashed([e EXCEPT !.ops = <<>>]), Kept(writes, S, 1)).data
        IN [data |-> d, flushed |-> d, ops |-> <<>>] :
            S \in SUBSET (1..Len(writes))}

\* The Log a command that succeeds leaves, with the engine operations since
\* the last flush kept across commands.
Keep(r) ==
    /\ r.status = "ok"
    /\ engine' = [r.self.engine EXCEPT !.ops = SinceFlush(@)]
    /\ term' = r.self.term
    /\ vote' = r.self.vote
    /\ last_index' = r.self.last_index
    /\ last_term' = r.self.last_term
    /\ commit_index' = r.self.commit_index
    /\ commit_term' = r.self.commit_term
    /\ fsync' = r.self.fsync
    /\ UNCHANGED res

\* The engine crashes between two commands and the Log is opened again on
\* what the crash left.
CrashReopen == \E image \in CrashImages(engine) : Keep(Ok(LogNew(image), None))

NextCrash ==
    \/ \E entries \in SpliceInputs : Keep(splice(Self, entries))
    \/ \E t \in Terms : Keep(set_term_vote(Self, t, None))
    \/ \E c \in Commands : last_index < MaxIndex /\ Keep(append(Self, c))
    \/ \E i \in Indexes : Keep(commit(Self, i))
    \/ CrashReopen

SpecCrash == Init /\ [][NextCrash]_vars

\* C24: with fsync enabled, whatever subset of the writes since the last
\* flush a crash between two commands loses, Log::new on the engine it
\* leaves recovers a commit index that is at most the last index and, when
\* above 0, an entry stored at the commit index with the commit term.
C24_CrashKeepsCommitStored ==
    fsync =>
        \A image \in CrashImages(engine) :
            LET n == LogNew(image)
            IN /\ n.commit_index <= n.last_index
               /\ n.commit_index > 0
                      => /\ get(n, n.commit_index) # None
                         /\ get(n, n.commit_index)[1].term = n.commit_term

\* Two commits since the last flush, and a crash that keeps the first and
\* loses the second: the commit index recovered is neither the cached one
\* nor the flushed one.
C24_Witness ==
    /\ fsync
    /\ Len(SinceFlush(engine.ops)) >= 2
    /\ \E image \in CrashImages(engine) :
           /\ LogNew(image).commit_index > LogNew(Crashed(engine)).commit_index
           /\ LogNew(image).commit_index < commit_index

\* ------------------------------------------------------ splice's skip loop
\* The outcome of the skip loop of splice on an input.
SkipOutcome(self, entries) ==
    SkipExisting(SpliceScan(self, entries[1], entries[Len(entries)]), entries)

\* C25: in every state of a run in which no command aborts, for every
\* non-empty splice input that passes the checks on the input, the current
\* term and the base entry, the skip loop neither reads the first of an
\* exhausted input nor meets a scanned entry whose index differs from the
\* next input entry's.
C25_SkipLoopInBounds ==
    \A entries \in SpliceInputs \ {<<>>} :
        ~BadInput(Begin, entries)
            => SkipOutcome(Begin, entries).msg
                   \notin {"index out of bounds", "index mismatch"}

\* A log of two entries and inputs that pass the checks: one whose first
\* entry the loop skips before it stops at a term conflict, and one of
\* which the loop skips every entry as the scan ends.
C25_Witness ==
    /\ last_index = 2
    /\ \E entries \in SpliceInputs \ {<<>>} :
           /\ ~BadInput(Begin, entries)
           /\ Len(entries) = 2
           /\ SkipOutcome(Begin, entries).status = "ok"
           /\ Len(SkipOutcome(Begin, entries).entries) = 1
    /\ \E entries \in SpliceInputs \ {<<>>} :
           /\ ~BadInput(Begin, entries)
           /\ entries[1].index = 2
           /\ SkipOutcome(Begin, entries).status = "ok"
           /\ SkipOutcome(Begin, entries).entries = <<>>
====
